---------------------------- MODULE Spec2Model ----------------------------
(***************************************************************************)
(* searchUntilEmDash (src/src/components/App.tsx, lines 53-146): the scan  *)
(* of a Hacker News user's submissions, oldest first, in batches of        *)
(* CONCURRENCY_LIMIT concurrent item fetches, stopping at the first batch  *)
(* in which a task recorded a match.                                       *)
(*                                                                         *)
(* JavaScript runs every promise continuation to completion before the     *)
(* next network event is delivered, so one action of the model is one      *)
(* network event together with everything the code does in reaction to it  *)
(* before it suspends again.  A task of a batch awaits twice (fetch, then  *)
(* json()); between the two it only tests itemResponse.ok, which neither   *)
(* reads nor writes a shared variable, so the task's resumption is one     *)
(* action, TaskSettles, taken when the body has arrived (or when the       *)
(* request has failed).                                                    *)
(*                                                                         *)
(* An optional value (x?: T, T | undefined, a null JSON body) is a         *)
(* sequence of length at most one: <<>> is absent, <<v>> is v.  A string   *)
(* is a sequence of characters; "EN" and "EM" stand for U+2013 and U+2014. *)
(***************************************************************************)
EXTENDS Integers, Sequences, FiniteSets, TLC

VARIABLES
  includeStories,  \* parameter of the run
  strictMode,      \* parameter of the run
  limit,           \* the run's CONCURRENCY_LIMIT
  userResponse,    \* what GET /v0/user/<username>.json resolves to
  itemResponse,    \* id -> what GET /v0/item/<id>.json resolves to
  pc,              \* "idle", "retrieving", "scanning", "returned", "raised"
  progress,        \* the events passed to onProgress, in order
  submissionIds,   \* the local array, once reversed
  i,               \* the loop index of the for statement
  foundEmDash,
  foundItem,
  matchedText,
  task,            \* id -> "none", "inflight", "done" (fulfilled), "rejected"
  issued,          \* the ids whose item fetch has been issued, in order
  skipped,         \* the ids whose task took the fast exit of line 99
  result,          \* the SearchResult the promise resolved to, if any
  runs,            \* how many times the search has been run
  prevResult,      \* the result of the previous run, if any
  url,             \* the query parameters of the page's URL
  ui,              \* the state of the App component (useState, lines 197-208)
  timers,          \* the pending setTimeout callbacks of line 275, in order
  searches         \* the runs of the search the App component has launched

vars == <<includeStories, strictMode, limit, userResponse, itemResponse, pc,
          progress, submissionIds, i, foundEmDash, foundItem, matchedText,
          task, issued, skipped, result, runs, prevResult,
          url, ui, timers, searches>>

\* the page: used by SpecPage only, left alone by a search run on its own
page == <<url, ui, timers, searches>>

config == <<includeStories, strictMode, limit, userResponse, itemResponse>>

(***************************************************************************)
(* Constants of the program and bounds of the model.                       *)
(***************************************************************************)
CONCURRENCY_LIMIT == 10

TARGET_TIMESTAMP_S == 1669852799

\* The longest submitted list of Spec.
MaxIds == 11

\* The longest submitted list of SpecSerial and SpecRerun.
MaxShort == 3

\* How many times SpecRerun runs the search against the same history.
MaxRuns == 2

None == <<>>

Some(v) == <<v>>

Range(s) == {s[k] : k \in DOMAIN s}

Min(a, b) == IF a < b THEN a ELSE b

(***************************************************************************)
(* The pattern matcher.                                                    *)
(***************************************************************************)
LOOSE_EM_DASH_REGEX ==
  {<<"-", "-">>, <<"EN", "EN">>, <<"EM", "EM">>, <<"EN">>, <<"EM">>}

STRICT_EM_DASH_REGEX == {<<"EM">>}

\* s begins with p: a pattern anchored at the start of the text
StartsWith(s, p) == Len(s) >= Len(p) /\ SubSeq(s, 1, Len(p)) = p

\* s has the substring p
Contains(s, p) ==
  \E k \in 1..(Len(s) - Len(p) + 1) : SubSeq(s, k, k + Len(p) - 1) = p

\* RegExp.prototype.test for an alternation of literals, not anchored
Test(regex, s) == \E p \in regex : Contains(s, p)

EmDashRegex(strict) ==
  IF strict THEN STRICT_EM_DASH_REGEX ELSE LOOSE_EM_DASH_REGEX

\* an optional string is truthy when it is present and not empty
Truthy(opt) == opt # None /\ opt[1] # <<>>

\* item.title || item.text || ""
TextToSearchTitleFirst(item) ==
  IF Truthy(item.title) THEN item.title[1]
  ELSE IF Truthy(item.text) THEN item.text[1]
  ELSE <<>>

\* item.text || item.title || ""
TextToSearch(item) ==
  IF Truthy(item.text) THEN item.text[1]
  ELSE IF Truthy(item.title) THEN item.title[1]
  ELSE <<>>

\* a type filter without the test of lines 117-119
TypeAllowedUnlessCommentsOnly(stories, type) ==
  IF stories THEN TRUE ELSE type = "comment"

\* the type filter of lines 114-119: TRUE when the item is kept
TypeAllowed(stories, type) ==
  IF stories THEN type \in {"comment", "story"} ELSE type = "comment"

\* a filter that keeps the items marked deleted
SkipsUnlessDeleted(stories, body) ==
  \/ body = None
  \/ body[1].time >= TARGET_TIMESTAMP_S
  \/ ~TypeAllowed(stories, body[1].type)

\* the cutoff compared with > : an item posted at the cutoff is kept
SkipsAfterCutoff(stories, body) ==
  \/ body = None
  \/ body[1].deleted
  \/ body[1].time > TARGET_TIMESTAMP_S
  \/ ~TypeAllowed(stories, body[1].type)

\* lines 109-119: TRUE when the task returns without testing the item
Skips(stories, body) ==
  \/ body = None
  \/ body[1].deleted
  \/ body[1].time >= TARGET_TIMESTAMP_S
  \/ ~TypeAllowed(stories, body[1].type)

(***************************************************************************)
(* The responses of the remote platform.                                   *)
(***************************************************************************)
Item(id, type, title, text, time, deleted) ==
  [id |-> id, type |-> type, title |-> title, text |-> text, time |-> time,
   deleted |-> deleted]

\* net: "ok" (2xx), "notok" (another status), "fail" (fetch rejects);
\* json: TRUE when the body parses; body: the parsed body, None for null
Response(net, json, body) == [net |-> net, json |-> json, body |-> body]

PlainComment(id) ==
  Response("ok", TRUE,
    Some(Item(id, "comment", None, Some(<<"a", "-", "b">>),
              TARGET_TIMESTAMP_S - 1, FALSE)))

DashComment(id) ==
  Response("ok", TRUE,
    Some(Item(id, "comment", None, Some(<<"a", "EM", "b">>),
              TARGET_TIMESTAMP_S - 1, FALSE)))

\* "a--b": matches the loose pattern only
HyphensComment(id) ==
  Response("ok", TRUE,
    Some(Item(id, "comment", None, Some(<<"a", "-", "-", "b">>),
              TARGET_TIMESTAMP_S - 1, FALSE)))

\* a story has a title; this one has no text
DashStory(id) ==
  Response("ok", TRUE,
    Some(Item(id, "story", Some(<<"a", "EM">>), None,
              TARGET_TIMESTAMP_S - 1, FALSE)))

\* posted at the cutoff
LateDashComment(id) ==
  Response("ok", TRUE,
    Some(Item(id, "comment", None, Some(<<"EM">>), TARGET_TIMESTAMP_S, FALSE)))

DeletedDashComment(id) ==
  Response("ok", TRUE,
    Some(Item(id, "comment", None, Some(<<"EM">>), TARGET_TIMESTAMP_S - 1, TRUE)))

NotOk == Response("notok", TRUE, None)

TransportFailure == Response("fail", TRUE, None)

\* a 2xx response whose body is the JSON null
NullBody == Response("ok", TRUE, None)

\* a 2xx response whose body does not parse
Malformed == Response("ok", FALSE, None)

\* what the user lookup resolves to: body is None for null, else the user object
UserResponse(net, json, body) == [net |-> net, json |-> json, body |-> body]

\* the platform lists a user's submissions newest first; ids grow with time
NewestFirst(n) == [k \in 1..n |-> n + 1 - k]

UserWith(n) == UserResponse("ok", TRUE, Some([submitted |-> Some(NewestFirst(n))]))

UserFailures ==
  {UserResponse("notok", TRUE, None), UserResponse("fail", TRUE, None),
   UserResponse("ok", FALSE, None), UserResponse("ok", TRUE, None),
   UserResponse("ok", TRUE, Some([submitted |-> None]))}

\* n plain comments, except that the items of D contain an em dash
WithMatches(n, D) ==
  [id \in 1..n |-> IF id \in D THEN DashComment(id) ELSE PlainComment(id)]

\* n plain comments, except that the request of id is answered by r
WithFailure(n, id, r) ==
  [j \in 1..n |-> IF j = id THEN r ELSE PlainComment(j)]

\* The histories of Spec: lists of plain comments; lists in which one item
\* or a pair of items, anywhere in the list, contain an em dash; lists in
\* which one request fails (another status, or no response at all).
Histories(n) ==
  {WithMatches(n, {})}
  \cup {WithMatches(n, {a, b}) : a \in 1..n, b \in 1..n}
  \cup {WithFailure(n, id, r) : id \in 1..n, r \in {NotOk, TransportFailure}}

\* every answer an item request can get, one of each sort
Responses(id) ==
  {PlainComment(id), DashComment(id), HyphensComment(id), DashStory(id),
   LateDashComment(id), DeletedDashComment(id), NotOk, TransportFailure,
   NullBody, Malformed}

\* The histories of SpecSerial and SpecRerun: any answer for every id.
ShortHistories(n) ==
  {h \in [1..n -> UNION {Responses(id) : id \in 1..n}] :
     \A id \in 1..n : h[id] \in Responses(id)}

(***************************************************************************)
(* The state before the search is called.                                  *)
(***************************************************************************)
\* useState, lines 197-208: the state of the component at its first render
InitialUi ==
  [username |-> <<>>, usernameError |-> "", errorMessage |-> "",
   foundItem |-> None, matchedText |-> <<>>, progressState |-> "idle",
   isLoading |-> FALSE, includeStories |-> FALSE, strictMode |-> FALSE,
   shownBy |-> 0]

\* the search is called on its own, without the page
NoPage ==
  /\ url = [username |-> None, strict |-> None]
  /\ ui = InitialUi
  /\ timers = <<>>
  /\ searches = <<>>

\* searchUntilEmDash has not been called
NotCalled ==
  /\ pc = "idle"
  /\ progress = <<>>
  /\ submissionIds = <<>>
  /\ i = 0
  /\ foundEmDash = FALSE
  /\ foundItem = None
  /\ matchedText = None
  /\ task = [id \in DOMAIN itemResponse |-> "none"]
  /\ issued = <<>>
  /\ skipped = {}
  /\ result = None

Idle == NoPage /\ NotCalled

\* the lookup of the user fails, or the user has no list of submissions
NoList ==
  /\ userResponse \in UserFailures
  /\ itemResponse = <<>>

\* the default options of lines 56-57, the program's concurrency limit
Init ==
  /\ includeStories = FALSE
  /\ strictMode = FALSE
  /\ limit = CONCURRENCY_LIMIT
  /\ \/ NoList
     \/ \E n \in 0..MaxIds :
          /\ userResponse = UserWith(n)
          /\ itemResponse \in Histories(n)
  /\ runs = 1
  /\ prevResult = None
  /\ Idle

(***************************************************************************)
(* The for loop of lines 93-135.                                           *)
(***************************************************************************)
\* the list scanned as the platform sends it
NotReversed(s) == s

\* submissionIds.reverse()
Reverse(s) == [k \in 1..Len(s) |-> s[Len(s) + 1 - k]]

\* a slice one id too long
BatchIdsOneMore(ids, k, lim) == SubSeq(ids, k + 1, Min(k + lim + 1, Len(ids)))

\* a slice one id too short
BatchIdsOneLess(ids, k, lim) == SubSeq(ids, k + 1, Min(k + lim - 1, Len(ids)))

\* submissionIds.slice(k, k + CONCURRENCY_LIMIT)
BatchIds(ids, k, lim) == SubSeq(ids, k + 1, Min(k + lim, Len(ids)))

\* the loop test of line 93 and the break of line 94
LoopContinues(found, k, ids) == k < Len(ids) /\ ~found

\* line 99, run for every id of the batch inside map: the fast exit fulfils
\* the task at once, otherwise the fetch is issued and the task suspends
TaskStart(found) == IF found THEN "done" ELSE "inflight"

\* The loop from its test at index k to the await of line 134 or to the
\* return of line 137; brk is foundEmDash as line 94 reads it and fast as
\* line 99 reads it.
Enter(brk, fast, k, ids, lim, t, iss, skp) ==
  IF LoopContinues(brk, k, ids)
  THEN LET batch == BatchIds(ids, k, lim)
           started == Range(batch)
       IN [pc |-> "scanning",
           task |-> [id \in DOMAIN t |->
                       IF id \in started THEN TaskStart(fast) ELSE t[id]],
           issued |-> IF fast THEN iss ELSE iss \o batch,
           skipped |-> IF fast THEN skp \cup Range(batch) ELSE skp]
  ELSE [pc |-> "returned", task |-> t, issued |-> iss, skipped |-> skp]

\* a flag that later iterations do not see (declared inside the loop body)
LoopHeadStale(found, k, ids, lim, t, iss, skp) ==
  Enter(FALSE, FALSE, k, ids, lim, t, iss, skp)

\* a loop without the break of line 94: the tasks of the next group read the
\* flag at line 99
LoopHeadNoBreak(found, k, ids, lim, t, iss, skp) ==
  Enter(FALSE, found, k, ids, lim, t, iss, skp)

\* no await separates line 94 from line 99: both read the same value
LoopHead(found, k, ids, lim, t, iss, skp) ==
  Enter(found, found, k, ids, lim, t, iss, skp)

\* the first task to be fulfilled ends the wait (Promise.race)
BatchSettledAny(t, batch) == \E k \in DOMAIN batch : t[batch[k]] = "done"

\* a wait for the tasks of the whole list, not of the batch
ListSettled(t, batch) == \A id \in DOMAIN t : t[id] = "done"

\* Promise.all(batchPromises) is fulfilled
BatchSettled(t, batch) == \A k \in DOMAIN batch : t[batch[k]] = "done"

\* a result that leaves matchedText out
SearchResultWithoutText(found, item, text) ==
  [found |-> found, item |-> item, matchedText |-> None]

\* lines 137-141
SearchResult(found, item, text) ==
  [found |-> found, item |-> item, matchedText |-> text]

\* the call that issues the user lookup without reporting it
StartSilent ==
  /\ pc = "idle"
  /\ pc' = "retrieving"
  /\ UNCHANGED <<config, progress, submissionIds, i, foundEmDash, foundItem,
                 matchedText, task, issued, skipped, result, runs, prevResult,
                 page>>

(***************************************************************************)
(* searchUntilEmDash is called: lines 64-67.                               *)
(***************************************************************************)
Start ==
  /\ pc = "idle"
  /\ pc' = "retrieving"
  /\ progress' = Append(progress, "retrieving")
  /\ UNCHANGED <<config, submissionIds, i, foundEmDash, foundItem,
                 matchedText, task, issued, skipped, result, runs, prevResult,
                 page>>

\* a lookup that does not test the status of the response
UserLookupThrowsUnlessData(u) ==
  u.net = "fail" \/ ~u.json \/ u.body = None

\* a lookup that takes a user without a list of submissions for no user
UserLookupThrowsOnNoList(u) ==
  \/ u.net = "fail" \/ u.net = "notok" \/ ~u.json \/ u.body = None
  \/ u.body[1].submitted = None

\* lines 65-77: TRUE when the lookup ends in the catch block
UserLookupThrows(u) ==
  u.net = "fail" \/ u.net = "notok" \/ ~u.json \/ u.body = None

\* userData.submitted || []
Submitted(u) ==
  IF u.body[1].submitted = None THEN <<>> ELSE u.body[1].submitted[1]

(***************************************************************************)
(* The user lookup settles: lines 65-96, up to the first await of the loop.*)
(***************************************************************************)
UserSettles ==
  /\ pc = "retrieving"
  /\ IF UserLookupThrows(userResponse)
     THEN /\ pc' = "raised"
          /\ UNCHANGED <<progress, submissionIds, i, foundEmDash, foundItem,
                         matchedText, task, issued, skipped, result>>
     ELSE IF Len(Submitted(userResponse)) = 0
     THEN /\ pc' = "returned"
          /\ result' = Some(SearchResult(FALSE, None, None))
          /\ UNCHANGED <<progress, submissionIds, i, foundEmDash, foundItem,
                         matchedText, task, issued, skipped>>
     ELSE \E ids \in {Reverse(Submitted(userResponse))} :
          \E nxt \in {LoopHead(FALSE, 0, ids, limit, task, issued, skipped)} :
             /\ submissionIds' = ids
             /\ progress' = Append(progress, "searching")
             /\ foundEmDash' = FALSE
             /\ foundItem' = None
             /\ matchedText' = None
             /\ i' = 0
             /\ pc' = nxt.pc
             /\ task' = nxt.task
             /\ issued' = nxt.issued
             /\ skipped' = nxt.skipped
             /\ result' = IF nxt.pc = "returned"
                          THEN Some(SearchResult(FALSE, None, None))
                          ELSE result
  /\ UNCHANGED <<config, runs, prevResult, page>>

(***************************************************************************)
(* The task of one id resumes with its response: lines 101-132, and, when  *)
(* this settles Promise.all, lines 134-145 and the next turn of the loop.  *)
(***************************************************************************)
\* fetch rejects, or json() rejects on a 2xx response
TaskRejects(r) == r.net = "fail" \/ (r.net = "ok" /\ ~r.json)

\* lines 104-124: the task reaches the test of line 124 and the text matches
TaskMatches(stories, strict, r) ==
  /\ r.net = "ok"
  /\ r.json
  /\ ~Skips(stories, r.body)
  /\ Test(EmDashRegex(strict), TextToSearch(r.body[1]))

\* a match recorded whatever the flag says
ClaimsAlways(found, matches) == matches

\* lines 124-125: the task records its match
Claims(found, matches) == matches /\ ~found

\* (\E x \in {e} : ... names the value of e.)
TaskSettles(id) ==
  /\ task[id] = "inflight"
  /\ \E claims \in {Claims(foundEmDash,
                           TaskMatches(includeStories, strictMode, itemResponse[id]))},
        rejects \in {TaskRejects(itemResponse[id])} :
     \E t \in {[task EXCEPT ![id] = IF rejects THEN "rejected" ELSE "done"]},
        found \in {foundEmDash \/ claims} :
        /\ foundEmDash' = found
        /\ foundItem' = IF claims THEN itemResponse[id].body ELSE foundItem
        /\ matchedText' = IF claims
                          THEN Some(TextToSearch(itemResponse[id].body[1]))
                          ELSE matchedText
        /\ IF pc = "scanning" /\ rejects
           THEN \* Promise.all rejects, line 134 throws, line 144 rethrows
                /\ pc' = "raised"
                /\ task' = t
                /\ UNCHANGED <<i, issued, skipped, result>>
           ELSE IF pc = "scanning"
                   /\ BatchSettled(t, BatchIds(submissionIds, i, limit))
           THEN \* line 134 returns: i += CONCURRENCY_LIMIT and the loop test
                \E nxt \in {LoopHead(found, i + limit, submissionIds, limit,
                                     t, issued, skipped)} :
                   /\ i' = i + limit
                   /\ pc' = nxt.pc
                   /\ task' = nxt.task
                   /\ issued' = nxt.issued
                   /\ skipped' = nxt.skipped
                   /\ result' = IF nxt.pc = "returned"
                                THEN Some(SearchResult(found, foundItem', matchedText'))
                                ELSE result
           ELSE \* the batch is not settled, or the run has raised already
                /\ task' = t
                /\ UNCHANGED <<pc, i, issued, skipped, result>>
  /\ UNCHANGED <<config, progress, submissionIds, runs, prevResult, page>>

Next ==
  \/ Start
  \/ UserSettles
  \/ \E id \in DOMAIN itemResponse : TaskSettles(id)

Spec == Init /\ [][Next]_vars

(***************************************************************************)
(* The search when every request issued is answered in the end, by a       *)
(* response or by a failure: the user lookup settles, and as long as an    *)
(* item request is outstanding one of them settles.                        *)
(***************************************************************************)
EveryFetchCompletes ==
  /\ WF_vars(UserSettles)
  /\ WF_vars(\E id \in DOMAIN itemResponse : TaskSettles(id))

\* lists of plain comments; lists whose oldest or newest item contains an em
\* dash; lists whose oldest or newest request fails
LiveHistories(n) ==
  {WithMatches(n, {})}
  \cup {WithMatches(n, {id}) : id \in {1, n} \cap (1..n)}
  \cup {WithFailure(n, id, r) :
          id \in {1, n} \cap (1..n), r \in {NotOk, TransportFailure}}

InitLive ==
  /\ includeStories = FALSE
  /\ strictMode = FALSE
  /\ limit = CONCURRENCY_LIMIT
  /\ \/ NoList
     \/ \E n \in 0..MaxIds :
          /\ userResponse = UserWith(n)
          /\ itemResponse \in LiveHistories(n)
  /\ runs = 1
  /\ prevResult = None
  /\ Idle

SpecLive == InitLive /\ [][Next]_vars /\ EveryFetchCompletes

(***************************************************************************)
(* The serial scan: the same program with a concurrency limit of 1, on     *)
(* short lists of any items, with any options.                             *)
(***************************************************************************)
InitShort ==
  /\ includeStories \in BOOLEAN
  /\ strictMode \in BOOLEAN
  /\ \/ NoList
     \/ \E n \in 0..MaxShort :
          /\ userResponse = UserWith(n)
          /\ itemResponse \in ShortHistories(n)
  /\ runs = 1
  /\ prevResult = None
  /\ Idle

InitSerial == limit = 1 /\ InitShort

SpecSerial == InitSerial /\ [][Next]_vars

(***************************************************************************)
(* The search run again with the same options against the same history     *)
(* (the form is submitted again, lines 295-298), once the requests of the  *)
(* previous run are all settled.                                           *)
(***************************************************************************)
Rerun ==
  /\ pc \in {"returned", "raised"}
  /\ \A id \in DOMAIN task : task[id] # "inflight"
  /\ runs < MaxRuns
  /\ runs' = runs + 1
  /\ prevResult' = Some([pc |-> pc, result |-> result])
  /\ pc' = "idle"
  /\ progress' = <<>>
  /\ submissionIds' = <<>>
  /\ i' = 0
  /\ foundEmDash' = FALSE
  /\ foundItem' = None
  /\ matchedText' = None
  /\ task' = [id \in DOMAIN itemResponse |-> "none"]
  /\ issued' = <<>>
  /\ skipped' = {}
  /\ result' = None
  /\ UNCHANGED <<config, page>>

InitRerun == limit = CONCURRENCY_LIMIT /\ InitShort

NextRerun ==
  \/ Start
  \/ UserSettles
  \/ \E id \in DOMAIN itemResponse : TaskSettles(id)
  \/ Rerun

SpecRerun == InitRerun /\ [][NextRerun]_vars

(***************************************************************************)
(* The search on short lists in which one item is any item at all: every   *)
(* kind, with or without a title and a body text, posted before, at or     *)
(* after the cutoff, deleted or not, or a request that fails.  The other   *)
(* items of the list are comments, with or without an em dash.  The user   *)
(* lookup may also be refused with a status that is not a success.         *)
(***************************************************************************)
\* The longest submitted list of SpecItems.
MaxItems == 2

\* HackerNewsItem.type, line 22
Kinds == {"comment", "story", "job", "poll", "pollopt"}

\* text?: absent, empty, without a dash, two hyphens, with an em dash
ItemTexts ==
  {None, Some(<<>>), Some(<<"a", "-", "b">>), Some(<<"-", "-">>),
   Some(<<"a", "EM">>)}

\* title?: absent, empty, without a dash, with an em dash
ItemTitles == {None, Some(<<>>), Some(<<"b">>), Some(<<"EM", "b">>)}

\* time: one second before the cutoff, the cutoff, one second after
ItemTimes ==
  {TARGET_TIMESTAMP_S - 1, TARGET_TIMESTAMP_S, TARGET_TIMESTAMP_S + 1}

AnyItems(id) ==
  {Response("ok", TRUE, Some(Item(id, type, title, text, time, deleted))) :
     type \in Kinds, title \in ItemTitles, text \in ItemTexts,
     time \in ItemTimes, deleted \in BOOLEAN}

ItemResponses(id) ==
  AnyItems(id) \cup {NotOk, TransportFailure, NullBody, Malformed}

\* n comments, those of D with an em dash, except that id is answered by r
WithItem(n, id, r, D) ==
  [j \in 1..n |-> IF j = id THEN r
                  ELSE IF j \in D THEN DashComment(j) ELSE PlainComment(j)]

ItemHistories(n) ==
  IF n = 0 THEN {<<>>}
  ELSE UNION {{WithItem(n, id, r, D) :
                 r \in ItemResponses(id), D \in SUBSET ((1..n) \ {id})} :
              id \in 1..n}

\* the lookup answered with another status than 2xx, whatever its body says
RefusedUserWith(n) ==
  UserResponse("notok", TRUE, Some([submitted |-> Some(NewestFirst(n))]))

InitItems ==
  /\ includeStories \in BOOLEAN
  /\ strictMode \in BOOLEAN
  /\ limit = CONCURRENCY_LIMIT
  /\ \/ NoList
     \/ \E n \in 0..MaxItems :
          /\ userResponse \in {UserWith(n), RefusedUserWith(n)}
          /\ itemResponse \in ItemHistories(n)
  /\ runs = 1
  /\ prevResult = None
  /\ Idle

SpecItems == InitItems /\ [][Next]_vars

(***************************************************************************)
(* The search of a user with one comment, whose text is any string of at   *)
(* most MaxLen characters among a letter, the ASCII hyphen, the en dash    *)
(* and the em dash, in both modes.                                         *)
(***************************************************************************)
\* The longest text of SpecMatcher.
MaxLen == 3

Alphabet == {"a", "-", "EN", "EM"}

Texts == UNION {[1..n -> Alphabet] : n \in 0..MaxLen}

CommentSaying(id, text) ==
  Response("ok", TRUE,
    Some(Item(id, "comment", None, Some(text), TARGET_TIMESTAMP_S - 1, FALSE)))

InitMatcher ==
  /\ includeStories = FALSE
  /\ strictMode \in BOOLEAN
  /\ limit = CONCURRENCY_LIMIT
  /\ userResponse = UserWith(1)
  /\ \E text \in Texts : itemResponse = <<CommentSaying(1, text)>>
  /\ runs = 1
  /\ prevResult = None
  /\ Idle

SpecMatcher == InitMatcher /\ [][Next]_vars

(***************************************************************************)
(* The search of comments that all contain an em dash and differ by their  *)
(* posting time only, around 30 November 2022 (UTC).  Date.getTime() / 1000 *)
(* of an ISO date with the Z suffix is the number of seconds from          *)
(* 1970-01-01T00:00:00Z, leap seconds ignored.                             *)
(***************************************************************************)
\* The longest submitted list of SpecDates.
MaxDated == 2

\* days from 1970-01-01 to year-month-day of the proleptic Gregorian calendar
DaysFromCivil(year, month, day) ==
  LET y == IF month <= 2 THEN year - 1 ELSE year
      era == y \div 400
      yoe == y - era * 400
      mp == IF month > 2 THEN month - 3 ELSE month + 9
      doy == (153 * mp + 2) \div 5 + day - 1
      doe == yoe * 365 + yoe \div 4 - yoe \div 100 + doy
  IN era * 146097 + doe - 719468

\* new Date("<year>-<month>-<day>T<h>:<m>:<s>Z").getTime() / 1000
UTCSeconds(year, month, day, h, m, s) ==
  DaysFromCivil(year, month, day) * 86400 + h * 3600 + m * 60 + s

\* the last second of 29 November, the first second, noon and the last two
\* seconds of 30 November, the first second of 1 December
DateTimes ==
  {UTCSeconds(2022, 11, 29, 23, 59, 59), UTCSeconds(2022, 11, 30, 0, 0, 0),
   UTCSeconds(2022, 11, 30, 12, 0, 0), UTCSeconds(2022, 11, 30, 23, 59, 58),
   UTCSeconds(2022, 11, 30, 23, 59, 59), UTCSeconds(2022, 12, 1, 0, 0, 0)}

DatedComment(id, time) ==
  Response("ok", TRUE,
    Some(Item(id, "comment", None, Some(<<"a", "EM", "b">>), time, FALSE)))

DatedHistories(n) ==
  {h \in [1..n -> {DatedComment(id, time) : id \in 1..n, time \in DateTimes}] :
     \A id \in 1..n : h[id].body[1].id = id}

InitDates ==
  /\ includeStories \in BOOLEAN
  /\ strictMode \in BOOLEAN
  /\ limit = CONCURRENCY_LIMIT
  /\ \E n \in 0..MaxDated :
       /\ userResponse = UserWith(n)
       /\ itemResponse \in DatedHistories(n)
  /\ runs = 1
  /\ prevResult = None
  /\ Idle

SpecDates == InitDates /\ [][Next]_vars

(***************************************************************************)
(* The page: the App component, the searches it launches and the pending   *)
(* callbacks of its timers. Several searches can be in progress at once;   *)
(* each is a run of searchUntilEmDash with the options of the render whose *)
(* performSearch launched it. Every user name looked up is answered by     *)
(* userResponse and every item request by itemResponse, whichever run      *)
(* issues it. To let lists of a few items span several batches, the runs   *)
(* of the page scan with a concurrency limit of PageLimit.                 *)
(***************************************************************************)
MaxSearches == 2
MaxPageIds == 3
PageLimit == 2

\* the characters of a user name: two letters, a blank, a character that
\* USERNAME_REGEX rejects
WordChars == {"a", "b", "_", "-"}

\* String.prototype.trim
Trim(s) ==
  LET inked == {k \in DOMAIN s : s[k] # " "}
  IN IF inked = {} THEN <<>>
     ELSE SubSeq(s, CHOOSE k \in inked : \A j \in inked : k <= j,
                    CHOOSE k \in inked : \A j \in inked : j <= k)

\* a test without the lower bound on the length
UsernameValidIfShort(s) ==
  /\ Len(s) <= 15
  /\ \A k \in DOMAIN s : s[k] \in WordChars

\* USERNAME_REGEX.test(s): /^[a-zA-Z0-9_-]{2,15}$/
UsernameValid(s) ==
  /\ Len(s) >= 2
  /\ Len(s) <= 15
  /\ \A k \in DOMAIN s : s[k] \in WordChars

\* the names passed in the URL: one that is valid once trimmed, one with a
\* character that is not allowed
Names == {<<" ", "a", "b">>, <<"a", "!">>}

\* the name typed in the input
Typed == {<<" ", "a", "b">>}

\* urlParams.get: None when the parameter is absent. Either parameter alone,
\* and a valid name with every value of strict.
Urls ==
  [username : {None} \cup {Some(n) : n \in Names}, strict : {None}]
  \cup {[username |-> None, strict |-> Some("true")]}
  \cup [username : {Some(<<" ", "a", "b">>)},
        strict : {Some("true"), Some("1"), Some("false")}]

\* strictParam === 'true' || strictParam === '1'
StrictParam(u) == u.strict \in {Some("true"), Some("1")}

\* usernameParam && USERNAME_REGEX.test(usernameParam.trim())
AutoSubmits(u) ==
  /\ u.username # None
  /\ u.username[1] # <<>>
  /\ UsernameValid(Trim(u.username[1]))

\* the callback of line 274: the performSearch of the render that ran the
\* effect, which reads includeStories and strictMode as that render had them
Callback(state, name) ==
  [stories |-> state.includeStories, strict |-> state.strictMode,
   username |-> name]

\* lines 260-278: one run of the effect after a render with state `state`
EffectOnce(u, state, tm) ==
  [ui |-> [state EXCEPT
             !.strictMode = IF StrictParam(u) THEN TRUE ELSE @,
             !.username = IF AutoSubmits(u) THEN Trim(u.username[1]) ELSE @],
   timers |-> IF AutoSubmits(u)
              THEN Append(tm, Callback(state, Trim(u.username[1])))
              ELSE tm]

\* line 279: the effect runs after every render whose performSearch is new.
\* It runs after the render given; when it changes strictMode the component
\* renders again with a new performSearch (line 257) and the effect runs
\* once more, after which the state is stable.
Effects(u, state, tm) ==
  LET first == EffectOnce(u, state, tm)
  IN IF first.ui.strictMode # state.strictMode
     THEN EffectOnce(u, first.ui, first.timers)
     ELSE first

\* lines 53-99 before the first await: a run of searchUntilEmDash
NewSearch(auto, name, stories, strict) ==
  [auto |-> auto, username |-> name, stories |-> stories, strict |-> strict,
   pc |-> "retrieving", submissionIds |-> <<>>, i |-> 0,
   foundEmDash |-> FALSE, foundItem |-> None, matchedText |-> None,
   task |-> [id \in DOMAIN itemResponse |-> "none"], issued |-> <<>>,
   result |-> None]

\* lines 210-236: performSearch up to its await. shownBy names the search
\* that produced what is displayed (0: none); errors are shown as flags.
PerformSearch(cb, auto, state, all) ==
  IF ~UsernameValid(Trim(cb.username))
  THEN [ui |-> [state EXCEPT !.usernameError = "invalid",
                             !.progressState = "idle",
                             !.isLoading = FALSE],
        searches |-> all]
  ELSE [ui |-> [state EXCEPT !.usernameError = "",
                             !.errorMessage = "",
                             !.isLoading = TRUE,
                             !.progressState = "retrieving",
                             !.foundItem = None,
                             !.matchedText = <<>>,
                             !.shownBy = 0],
        searches |-> Append(all, NewSearch(auto, Trim(cb.username),
                                           cb.stories, cb.strict))]

\* lines 238-255: performSearch after its await, for the run r, the k-th
Shows(state, r, k) ==
  IF r.pc = "raised"
  THEN [state EXCEPT !.errorMessage = "error",
                     !.progressState = "error",
                     !.isLoading = FALSE,
                     !.shownBy = k]
  ELSE IF r.pc = "returned" /\ r.result[1].found
  THEN [state EXCEPT !.progressState = "found",
                     !.foundItem = r.result[1].item,
                     !.matchedText = IF r.result[1].matchedText = None
                                     THEN <<>>
                                     ELSE r.result[1].matchedText[1],
                     !.isLoading = FALSE,
                     !.shownBy = k]
  ELSE IF r.pc = "returned"
  THEN [state EXCEPT !.progressState = "failed",
                     !.isLoading = FALSE,
                     !.shownBy = k]
  ELSE state

\* a flag that all the runs share
FlagOfAny(all, k) == \E j \in DOMAIN all : all[j].foundEmDash

\* line 89: foundEmDash is a variable of the call, one for each run
FlagOf(all, k) == all[k].foundEmDash

\* lines 69-96 for the k-th run, as UserSettles
AfterUser(all, k) ==
  LET r == all[k]
  IN IF UserLookupThrows(userResponse)
     THEN [r EXCEPT !.pc = "raised"]
     ELSE IF Len(Submitted(userResponse)) = 0
     THEN [r EXCEPT !.pc = "returned",
                    !.result = Some(SearchResult(FALSE, None, None))]
     ELSE LET ids == Reverse(Submitted(userResponse))
              started == [all EXCEPT ![k].foundEmDash = FALSE]
              nxt == LoopHead(FlagOf(started, k), 0, ids, limit,
                              r.task, r.issued, {})
          IN [r EXCEPT !.submissionIds = ids,
                       !.foundEmDash = FALSE,
                       !.i = 0,
                       !.pc = nxt.pc,
                       !.task = nxt.task,
                       !.issued = nxt.issued,
                       !.result = IF nxt.pc = "returned"
                                  THEN Some(SearchResult(FlagOf(started, k),
                                                         None, None))
                                  ELSE @]

\* lines 101-145 for the task of id in the k-th run, as TaskSettles
AfterTask(all, k, id) ==
  LET r == all[k]
      claims == Claims(FlagOf(all, k),
                       TaskMatches(r.stories, r.strict, itemResponse[id]))
      rejects == TaskRejects(itemResponse[id])
      t == [r.task EXCEPT ![id] = IF rejects THEN "rejected" ELSE "done"]
      settled ==
        [r EXCEPT !.task = t,
                  !.foundEmDash = @ \/ claims,
                  !.foundItem = IF claims THEN itemResponse[id].body ELSE @,
                  !.matchedText =
                     IF claims
                     THEN Some(TextToSearch(itemResponse[id].body[1]))
                     ELSE @]
      found == FlagOf([all EXCEPT ![k] = settled], k)
  IN IF r.pc = "scanning" /\ rejects
     THEN [settled EXCEPT !.pc = "raised"]
     ELSE IF r.pc = "scanning"
             /\ BatchSettled(t, BatchIds(r.submissionIds, r.i, limit))
     THEN LET nxt == LoopHead(found, r.i + limit, r.submissionIds, limit,
                              t, r.issued, {})
          IN [settled EXCEPT
                !.i = @ + limit,
                !.pc = nxt.pc,
                !.task = nxt.task,
                !.issued = nxt.issued,
                !.result = IF nxt.pc = "returned"
                           THEN Some(SearchResult(found, settled.foundItem,
                                                  settled.matchedText))
                           ELSE @]
     ELSE settled

\* what the page leaves alone: the search called on its own
alone == <<config, pc, progress, submissionIds, i, foundEmDash, foundItem,
           matchedText, task, issued, skipped, result, runs, prevResult>>

\* the delay of 100 ms is over: the oldest callback runs
TimerFires ==
  /\ timers # <<>>
  /\ \E nxt \in {PerformSearch(Head(timers), TRUE, ui, searches)} :
       /\ ui' = nxt.ui
       /\ searches' = nxt.searches
  /\ timers' = Tail(timers)
  /\ UNCHANGED <<alone, url>>

\* lines 295-298 and line 587: the form is submitted
Submit ==
  /\ ~ui.isLoading
  /\ Trim(ui.username) # <<>>
  /\ \E nxt \in {PerformSearch(Callback(ui, ui.username), FALSE, ui, searches)} :
       /\ Len(nxt.searches) + Len(timers) <= MaxSearches
       /\ ui' = nxt.ui
       /\ searches' = nxt.searches
  /\ UNCHANGED <<alone, url, timers>>

\* lines 281-293 and line 530: the user changes the text of the input
HandleUsernameChange(newUsername) ==
  /\ ~ui.isLoading
  /\ ui' = IF ui.progressState # "idle"
           THEN [ui EXCEPT !.username = newUsername,
                           !.usernameError = "",
                           !.errorMessage = "",
                           !.progressState = "idle",
                           !.isLoading = FALSE,
                           !.foundItem = None,
                           !.matchedText = <<>>,
                           !.shownBy = 0]
           ELSE [ui EXCEPT !.username = newUsername,
                           !.usernameError = "",
                           !.errorMessage = ""]
  /\ UNCHANGED <<alone, url, timers, searches>>

\* lines 541 and 554: the strict button; performSearch is new, the effect runs
ToggleStrict ==
  /\ ~ui.isLoading
  /\ \E nxt \in {Effects(url, [ui EXCEPT !.strictMode = ~@], timers)} :
       /\ Len(nxt.timers) + Len(searches) <= MaxSearches
       /\ ui' = nxt.ui
       /\ timers' = nxt.timers
  /\ UNCHANGED <<alone, url, searches>>

\* lines 560 and 573: the +titles button
ToggleStories ==
  /\ ~ui.isLoading
  /\ \E nxt \in {Effects(url, [ui EXCEPT !.includeStories = ~@], timers)} :
       /\ Len(nxt.timers) + Len(searches) <= MaxSearches
       /\ ui' = nxt.ui
       /\ timers' = nxt.timers
  /\ UNCHANGED <<alone, url, searches>>

\* the user lookup of the k-th run settles; line 88 reports "searching"
\* through the callback of lines 226-228
SearchUserSettles(k) ==
  /\ searches[k].pc = "retrieving"
  /\ \E r \in {AfterUser(searches, k)} :
       /\ searches' = [searches EXCEPT ![k] = r]
       /\ ui' = Shows(IF r.submissionIds # <<>>
                      THEN [ui EXCEPT !.progressState = "searching"]
                      ELSE ui, r, k)
  /\ UNCHANGED <<alone, url, timers>>

\* an item request of the k-th run settles
SearchTaskSettles(k, id) ==
  /\ searches[k].task[id] = "inflight"
  /\ \E r \in {AfterTask(searches, k, id)} :
       /\ searches' = [searches EXCEPT ![k] = r]
       /\ ui' = IF r.pc # searches[k].pc THEN Shows(ui, r, k) ELSE ui
  /\ UNCHANGED <<alone, url, timers>>

\* n plain comments, except that the item of a has a double hyphen and the
\* item of b an em dash
WithHyphensAndDash(n, a, b) ==
  [id \in 1..n |-> IF id = b THEN DashComment(id)
                   ELSE IF id = a THEN HyphensComment(id)
                   ELSE PlainComment(id)]

\* lists of plain comments; lists whose oldest item has a double hyphen,
\* whose newest item has an em dash, or both; lists whose oldest item is
\* never delivered
PageHistories(n) ==
  {WithMatches(n, {})}
  \cup {WithHyphensAndDash(n, a, b) : a \in {0, 1}, b \in {0, n}}
  \cup {WithFailure(n, id, TransportFailure) : id \in {1} \cap (1..n)}

\* the lengths of the lists: none, one item, more than a batch
PageLengths == {0, 1, MaxPageIds}

\* the page after its first render and the effect of lines 260-279
InitPage ==
  /\ includeStories = FALSE
  /\ strictMode = FALSE
  /\ limit = PageLimit
  /\ \/ NoList
     \/ \E n \in PageLengths :
          /\ userResponse = UserWith(n)
          /\ itemResponse \in PageHistories(n)
  /\ runs = 1
  /\ prevResult = None
  /\ NotCalled
  /\ url \in Urls
  /\ \E nxt \in {Effects(url, InitialUi, <<>>)} :
       /\ ui = nxt.ui
       /\ timers = nxt.timers
  /\ searches = <<>>

NextPage ==
  \/ TimerFires
  \/ Submit
  \/ \E newUsername \in Typed : HandleUsernameChange(newUsername)
  \/ ToggleStrict
  \/ ToggleStories
  \/ \E k \in DOMAIN searches : SearchUserSettles(k)
  \/ \E k \in DOMAIN searches : \E id \in DOMAIN itemResponse :
       SearchTaskSettles(k, id)

SpecPage == InitPage /\ [][NextPage]_vars

(***************************************************************************)
(* The form: the page for users with at most one submission, where the     *)
(* name typed in the input is any of: a valid name with a blank before it, *)
(* a name with a character that is not allowed, a name of one character, a *)
(* name of sixteen characters, nothing but a blank.                        *)
(***************************************************************************)
TypedAny ==
  Names \cup {<<"a">>, [k \in 1..16 |-> "a"], <<" ">>}

InitForm ==
  /\ includeStories = FALSE
  /\ strictMode = FALSE
  /\ limit = PageLimit
  /\ \/ NoList
     \/ \E n \in {0, 1} :
          /\ userResponse = UserWith(n)
          /\ itemResponse \in PageHistories(n)
  /\ runs = 1
  /\ prevResult = None
  /\ NotCalled
  /\ url \in Urls \cup {[username |-> Some(<<"a">>), strict |-> None]}
  /\ \E nxt \in {Effects(url, InitialUi, <<>>)} :
       /\ ui = nxt.ui
       /\ timers = nxt.timers
  /\ searches = <<>>

NextForm ==
  \/ TimerFires
  \/ Submit
  \/ \E newUsername \in TypedAny : HandleUsernameChange(newUsername)
  \/ ToggleStrict
  \/ ToggleStories
  \/ \E k \in DOMAIN searches : SearchUserSettles(k)
  \/ \E k \in DOMAIN searches : \E id \in DOMAIN itemResponse :
       SearchTaskSettles(k, id)

SpecForm == InitForm /\ [][NextForm]_vars

(***************************************************************************)
(* Vocabulary of the properties.                                           *)
(***************************************************************************)
Ids == DOMAIN itemResponse

InFlight == {id \in Ids : task[id] = "inflight"}

Settled(id) == task[id] \in {"done", "rejected"}

\* the item of id is available, passes the filters and matches the pattern
EligibleMatch(id) == TaskMatches(includeStories, strictMode, itemResponse[id])

Eligible == {id \in Ids : EligibleMatch(id)}

\* ids grow with posting time: the oldest of a set of ids is the smallest
Oldest(S) == CHOOSE a \in S : \A b \in S : a <= b

\* the group of id in the oldest-first partition into groups of limit ids
\* (the ids of a list are 1..n in posting order: id - 1 items are older than id)
GroupOf(id) == (id - 1) \div limit

Returned == pc = "returned"

Found == Returned /\ result[1].found

ResultId == result[1].item[1].id

TypeOK ==
  /\ pc \in {"idle", "retrieving", "scanning", "returned", "raised"}
  /\ foundEmDash \in BOOLEAN
  /\ \A id \in Ids : task[id] \in {"none", "inflight", "done", "rejected"}
  /\ (result # None) = Returned

(***************************************************************************)
(* The properties.                                                         *)
(***************************************************************************)
\* the task of id resumes with a match it is entitled to record
MatchSettles(id) ==
  task[id] = "inflight" /\ task'[id] = "done" /\ EligibleMatch(id)

Recorded(id) ==
  /\ foundEmDash
  /\ foundItem = itemResponse[id].body
  /\ matchedText = Some(TextToSearch(itemResponse[id].body[1]))

\* C1: in a run the match is recorded at most once. A task that matches while
\* foundEmDash is false sets the flag and records its item and its text; once
\* the flag is set, no step resets it or changes foundItem or matchedText.
C1_RecordedAtMostOnce ==
  [][/\ foundEmDash =>
          /\ foundEmDash'
          /\ foundItem' = foundItem
          /\ matchedText' = matchedText
     /\ \A id \in Ids : (~foundEmDash /\ MatchSettles(id)) => Recorded(id)']_vars

\* a second matching task has settled and the first record stands
C1_Witness ==
  \E a, b \in Ids :
     /\ a # b
     /\ task[a] = "done" /\ EligibleMatch(a) /\ Recorded(a)
     /\ task[b] = "done" /\ EligibleMatch(b)

\* C2: the fetches are issued oldest first, and no fetch of a later group is
\* issued while a task of an earlier group is unresolved.
C2_GroupsInOrder ==
  /\ issued = SubSeq(submissionIds, 1, Len(issued))
  /\ \A k \in DOMAIN submissionIds : submissionIds[k] = k
  /\ \A a, b \in Ids :
        (GroupOf(a) < GroupOf(b) /\ task[b] # "none") => Settled(a)

\* a fetch of the second group is in flight
C2_Witness == \E b \in Ids : GroupOf(b) = 1 /\ task[b] = "inflight"

\* C3: at most CONCURRENCY_LIMIT item fetches are issued and not completed.
C3_BoundedInFlight == Cardinality(InFlight) <= CONCURRENCY_LIMIT

C3_Witness == Cardinality(InFlight) = CONCURRENCY_LIMIT

\* C4: no fetch is ever issued for an id of a group after the group in which
\* the match was recorded.
C4_NoGroupAfterMatch ==
  foundEmDash =>
    \A id \in Ids : GroupOf(id) > GroupOf(foundItem[1].id) => task[id] = "none"

\* the run has returned a match of the first group and left a later group alone
C4_Witness ==
  /\ Found
  /\ \E id \in Ids : GroupOf(id) > GroupOf(ResultId) /\ task[id] = "none"

\* C5: the failure of one item request never makes the search raise: once an
\* item fetch has been issued the run does not end in the catch block.
C5_ItemFailureNeverRaises ==
  pc = "raised" => \A id \in Ids : task[id] = "none"

\* C6: only the user lookup can make the search raise; once the list has
\* been retrieved the run returns, with found as it is when the failed items
\* are left out.
C6_OnlyUserLookupRaises ==
  /\ pc = "raised" => progress = <<"retrieving">>
  /\ (Returned /\ Len(submissionIds) > 0) => (result[1].found = (Eligible # {}))

\* C7: the item returned is the oldest eligible matching submission.
C7_OldestMatch == Found => ResultId = Oldest(Eligible)

\* the first eligible match of the run settles
FirstMatchSettles(id) ==
  MatchSettles(id) /\ ~\E j \in Ids : task[j] = "done" /\ EligibleMatch(j)

\* a batch has been issued and none of its tasks has resumed yet
BatchIssued ==
  /\ pc = "scanning"
  /\ \A id \in Range(BatchIds(submissionIds, i, limit)) : task[id] = "inflight"

C9_SerialOldest ==
  /\ Found =>
       /\ ResultId = Oldest(Eligible)
       /\ \A id \in Ids : id > ResultId => task[id] = "none"
  /\ (Returned /\ ~result[1].found) => Eligible = {}

\* A does not match, B and C match, B is returned
C9_Witness ==
  /\ limit = 1
  /\ Found
  /\ ResultId = 2
  /\ Eligible = {2, 3}
  /\ task[1] = "done"

\* C10: a second run with the same options against the same history returns
\* the SearchResult of the first.
C10_SameResult ==
  (runs > 1 /\ Returned /\ prevResult[1].pc = "returned")
     => result = prevResult[1].result

\* the user lookup has been answered with a status that is not a success,
\* or with a success whose body is null
UserRefusedOrNoData ==
  \/ userResponse.net = "notok"
  \/ userResponse.net = "ok" /\ userResponse.json /\ userResponse.body = None

\* the user exists and has no submission: the list is empty or missing
UserWithoutSubmissions ==
  /\ userResponse.net = "ok"
  /\ userResponse.json
  /\ userResponse.body # None
  /\ \/ userResponse.body[1].submitted = None
     \/ userResponse.body[1].submitted = Some(<<>>)

\* the code that follows the user lookup has run
LookupSettled == pc \notin {"idle", "retrieving"}

\* C11: when the user lookup returns a non-success status or a null body, the
\* search raises, issues no item fetch and does not emit "searching".
C11_UserNotFound ==
  (UserRefusedOrNoData /\ LookupSettled) =>
     /\ pc = "raised"
     /\ issued = <<>>
     /\ \A id \in Ids : task[id] = "none"
     /\ progress = <<"retrieving">>

\* the lookup of a user was refused although its body lists submissions
C11_Witness ==
  /\ pc = "raised"
  /\ userResponse.net = "notok"
  /\ Ids # {}

\* C12: for a user that exists and has an empty or a missing submitted list
\* the search returns found = false, without raising and without any item
\* fetch.
C12_NoSubmissions ==
  (UserWithoutSubmissions /\ LookupSettled) =>
     /\ pc = "returned"
     /\ result = Some([found |-> FALSE, item |-> None, matchedText |-> None])
     /\ issued = <<>>
     /\ \A id \in Ids : task[id] = "none"

\* the search has returned for a user whose submitted field is missing
C12_Witness ==
  /\ pc = "returned"
  /\ userResponse.body # None
  /\ userResponse.body[1].submitted = None

(***************************************************************************)
(* What the claims say of an item, stated on the item's fields.            *)
(***************************************************************************)
HasChar(t, c) == \E k \in DOMAIN t : t[k] = c

HasDoubleHyphen(t) == \E k \in 1..(Len(t) - 1) : t[k] = "-" /\ t[k + 1] = "-"

\* strict: a true em dash; loose: two hyphens in a row, an en dash or an em dash
MatchesMode(strict, t) ==
  IF strict THEN HasChar(t, "EM")
  ELSE HasChar(t, "EM") \/ HasChar(t, "EN") \/ HasDoubleHyphen(t)

\* the body text unless it is absent or empty, else the title unless it is
\* absent or empty, else the empty string
Candidate(item) ==
  IF item.text # None /\ Len(item.text[1]) > 0 THEN item.text[1]
  ELSE IF item.title # None /\ Len(item.title[1]) > 0 THEN item.title[1]
  ELSE <<>>

\* the request of id is answered with a success and an item
Available(id) ==
  /\ itemResponse[id].net = "ok"
  /\ itemResponse[id].json
  /\ itemResponse[id].body # None

ItemOf(id) == itemResponse[id].body[1]

EligibleKinds == IF includeStories THEN {"comment", "story"} ELSE {"comment"}

\* available, not deleted, posted before the cutoff, of an eligible kind, with
\* a candidate text that matches in the selected mode
Qualifies(id) ==
  /\ Available(id)
  /\ ~ItemOf(id).deleted
  /\ ItemOf(id).time < TARGET_TIMESTAMP_S
  /\ ItemOf(id).type \in EligibleKinds
  /\ MatchesMode(strictMode, Candidate(ItemOf(id)))

\* the run is over and it had a list of submissions to scan
ScanOver == pc \in {"returned", "raised"} /\ Len(submissionIds) > 0

\* C13: the search returns found = true if and only if at least one of the
\* user's submissions is available, not deleted, posted before the cutoff,
\* of an eligible kind and matching in the selected mode; when it returns
\* found = false after a non-empty list, every id of the list was fetched.
C13_FoundIffQualifies ==
  ScanOver =>
    /\ (Returned /\ result[1].found) <=> (\E id \in Ids : Qualifies(id))
    /\ (Returned /\ ~result[1].found) =>
          /\ Range(issued) = Ids
          /\ \A id \in Ids : task[id] = "done"

\* the item of id would qualify if the cutoff were left out
QualifiesButForTime(id) ==
  /\ Available(id)
  /\ ~ItemOf(id).deleted
  /\ ItemOf(id).type \in EligibleKinds
  /\ MatchesMode(strictMode, Candidate(ItemOf(id)))

\* the task of id resumes and is fulfilled while no match is recorded
SettlesFirst(id) ==
  task[id] = "inflight" /\ task'[id] = "done" /\ ~foundEmDash

C15_ReturnedKinds ==
  /\ foundEmDash =>
       /\ foundItem[1].type \in {"comment", "story"}
       /\ ~includeStories => foundItem[1].type = "comment"
  /\ Found =>
       /\ result[1].item[1].type \notin {"job", "poll", "pollopt"}
       /\ result[1].item[1].type \in {"comment", "story"}
       /\ ~includeStories => result[1].item[1].type = "comment"

\* with includeStories a story is returned
C15_Witness ==
  /\ Found
  /\ includeStories
  /\ result[1].item[1].type = "story"

\* the text has none of: two hyphens in a row, an en dash, an em dash
OnlyIsolatedHyphens(t) ==
  ~HasDoubleHyphen(t) /\ ~HasChar(t, "EN") /\ ~HasChar(t, "EM")

\* C16: the matcher is a substring test. In strict mode a text matches iff
\* it contains the em dash; in loose mode iff it contains two consecutive
\* hyphens, an en dash or an em dash; a text that matches in strict mode
\* matches in loose mode, and a text whose only dashes are isolated single
\* hyphens matches in neither mode.
C16_SubstringTest ==
  \A id \in Ids :
     /\ Returned =>
          /\ strictMode => (result[1].found <=> HasChar(ItemOf(id).text[1], "EM"))
          /\ ~strictMode =>
               (result[1].found <=>
                  \/ HasDoubleHyphen(ItemOf(id).text[1])
                  \/ HasChar(ItemOf(id).text[1], "EN")
                  \/ HasChar(ItemOf(id).text[1], "EM"))
          /\ OnlyIsolatedHyphens(ItemOf(id).text[1]) => ~result[1].found
     /\ Test(STRICT_EM_DASH_REGEX, ItemOf(id).text[1])
          => Test(LOOSE_EM_DASH_REGEX, ItemOf(id).text[1])
     /\ OnlyIsolatedHyphens(ItemOf(id).text[1]) =>
          /\ ~Test(STRICT_EM_DASH_REGEX, ItemOf(id).text[1])
          /\ ~Test(LOOSE_EM_DASH_REGEX, ItemOf(id).text[1])

\* a text found in loose mode for its two hyphens, which do not begin it
C16_Witness ==
  /\ Found
  /\ ~strictMode
  /\ \E id \in Ids :
        /\ ItemOf(id).text[1][1] = "a"
        /\ HasDoubleHyphen(ItemOf(id).text[1])
        /\ ~HasChar(ItemOf(id).text[1], "EN")
        /\ ~HasChar(ItemOf(id).text[1], "EM")

\* available, not deleted, posted before the cutoff, of an eligible kind
PassesFilters(id) ==
  /\ Available(id)
  /\ ~ItemOf(id).deleted
  /\ ItemOf(id).time < TARGET_TIMESTAMP_S
  /\ ItemOf(id).type \in EligibleKinds

\* the body text if the field is present, else the title if the field is
\* present, else the empty string
CandidateIfPresent(item) ==
  IF item.text # None THEN item.text[1]
  ELSE IF item.title # None THEN item.title[1]
  ELSE <<>>

StoryWithMatchingTitle(id) ==
  /\ PassesFilters(id)
  /\ ItemOf(id).type = "story"
  /\ ItemOf(id).title # None
  /\ MatchesMode(strictMode, ItemOf(id).title[1])

\* C18: with includeStories the search covers story titles: when a
\* submission is an available, not deleted, pre-cutoff story whose title
\* matches, the search that returns returns found = true, whether or not
\* the story also has a body text.
C18_StoryTitles ==
  (Returned /\ includeStories /\ \E id \in Ids : StoryWithMatchingTitle(id))
     => result[1].found

\* C19: in every SearchResult returned, item is present iff found is true
\* and matchedText is present iff found is true; when found is true,
\* matchedText is the candidate text of the returned item, its body or its
\* title, it is not empty and it matches in the mode of the search.
C19_ResultShape ==
  Returned =>
    /\ (result[1].item # None) <=> result[1].found
    /\ (result[1].matchedText # None) <=> result[1].found
    /\ result[1].found =>
         /\ result[1].matchedText = Some(Candidate(result[1].item[1]))
         /\ result[1].matchedText \in
              {result[1].item[1].text, result[1].item[1].title}
         /\ Len(result[1].matchedText[1]) > 0
         /\ MatchesMode(strictMode, result[1].matchedText[1])

\* an item with a title is returned with its body text as matchedText
C19_Witness ==
  /\ Found
  /\ result[1].item[1].title # None
  /\ result[1].matchedText = result[1].item[1].text

\* C20: in every run the progress events form a prefix of (retrieving,
\* searching): at most two events, none repeated, "retrieving" first and
\* emitted by the time the user lookup is issued, "searching" never before
\* "retrieving".
C20_ProgressPrefix ==
  /\ progress \in {<<>>, <<"retrieving">>, <<"retrieving", "searching">>}
  /\ pc = "idle" => progress = <<>>
  /\ pc = "retrieving" => progress = <<"retrieving">>
  /\ pc # "idle" => progress[1] = "retrieving"

\* two batches have been scanned and "searching" was emitted once
C20_Witness ==
  /\ Returned
  /\ Len(submissionIds) > CONCURRENCY_LIMIT
  /\ progress = <<"retrieving", "searching">>

\* C21: only submissions posted before 30 November 2022 are searched: an
\* item posted during 30 November 2022 UTC, for example at 1669809600
\* (2022-11-30T12:00:00Z), is never returned as the match.
C21_BeforeNovember30 ==
  /\ UTCSeconds(2022, 11, 30, 12, 0, 0) = 1669809600
  /\ UTCSeconds(2022, 11, 30, 23, 59, 59) = TARGET_TIMESTAMP_S
  /\ Found => result[1].item[1].time < UTCSeconds(2022, 11, 30, 0, 0, 0)

\* C24: the group-level step is a join: control leaves a group, to start
\* the next group, to return or to raise, only after every task of the
\* group has completed, whether it succeeded or failed; no item fetch of the
\* run is outstanding when the search settles.
C24_JoinBeforeLeaving ==
  /\ pc = "scanning" => \A k \in 1..i : Settled(submissionIds[k])
  /\ pc \in {"returned", "raised"} => InFlight = {}

\* C25: after the flag is claimed, a task that has not issued its fetch
\* issues none, while the tasks of the group already in flight are not
\* cancelled: they stay in flight until their response arrives, a match
\* they find is discarded, and the result of the run is the one recorded by
\* the first claimant.
C25_NoCancellation ==
  /\ [][foundEmDash =>
          /\ issued' = issued
          /\ \A id \in Ids : task[id] = "none" => task'[id] = "none"]_vars
  /\ [][\A id \in Ids :
          task[id] = "inflight" => task'[id] \in {"inflight", "done", "rejected"}]_vars
  /\ [](foundEmDash => \A id \in InFlight : ENABLED TaskSettles(id))
  /\ [][\A id \in Ids :
          /\ FirstMatchSettles(id) => Recorded(id)'
          /\ (foundEmDash /\ MatchSettles(id)) =>
               /\ foundItem' = foundItem
               /\ matchedText' = matchedText]_vars
  /\ [](Found =>
          /\ result[1].item = foundItem
          /\ result[1].matchedText = matchedText)

\* the run has returned the first claimant's item; another match of the
\* group settled after it, and a later group was never fetched
C25_Witness ==
  /\ Found
  /\ \E b \in Eligible :
        b # ResultId /\ task[b] = "done" /\ GroupOf(b) = GroupOf(ResultId)
  /\ \E id \in Ids : task[id] = "none"

\* the list of ids as the platform sent it (newest first)
PlatformList == userResponse.body[1].submitted[1]

\* where id stands in the platform's list
PlatformIndex(id) ==
  CHOOSE a \in DOMAIN PlatformList : PlatformList[a] = id

\* C26: the id list returned newest first by the platform is scanned in
\* exactly the reverse order: the first group is made of the last (up to) 10
\* ids of the platform's list, and of two ids of different groups the one that
\* comes later in the platform's list is fetched first.
C26_ReverseOrder ==
  issued # <<>> =>
    /\ \A p \in DOMAIN issued :
          issued[p] = PlatformList[Len(PlatformList) + 1 - p]
    /\ \A p \in 1..Min(10, Len(PlatformList)) :
          \E q \in 0..9 : issued[p] = PlatformList[Len(PlatformList) - q]
    /\ \A q \in DOMAIN issued :
          \* p runs over the fetches of the groups before the group of q
          \A p \in 1..(((q - 1) \div 10) * 10) :
             PlatformIndex(issued[p]) > PlatformIndex(issued[q])

\* the newest id of a list of eleven is fetched alone, in the second group
C26_Witness ==
  /\ Len(issued) = 11
  /\ issued[11] = PlatformList[1]
  /\ task[issued[11]] = "inflight"

\* C27: the oldest-first list is cut into consecutive groups; every group
\* but the last has exactly 10 ids and the last has between 1 and 10; every
\* id belongs to exactly one group, and in a run each id is fetched at most
\* once. (The group being scanned is made of the fetches issued from the
\* loop index on.)
C27_Partition ==
  /\ \A p \in DOMAIN issued : issued[p] = submissionIds[p]
  /\ \A p, q \in DOMAIN issued : issued[p] = issued[q] => p = q
  /\ pc = "scanning" =>
       /\ i % 10 = 0
       /\ Len(issued) - i \in 1..10
       /\ Len(issued) < Len(submissionIds) => Len(issued) - i = 10
  /\ (Returned /\ ~result[1].found /\ Len(submissionIds) > 0) =>
       /\ Len(issued) = Len(submissionIds)
       /\ Range(issued) = Ids

\* a list of eleven ids was scanned to its end: a group of ten, a group of one
C27_Witness ==
  /\ Returned
  /\ ~result[1].found
  /\ Len(issued) = 11

\* how many times "searching" was emitted
SearchingCount ==
  Cardinality({k \in DOMAIN progress : progress[k] = "searching"})

\* C28 as stated: in every run that retrieves a non-empty list "searching"
\* is emitted exactly once, before the first item fetch is issued; every run
\* that returns a SearchResult has emitted both "retrieving" and "searching".
C28_SearchingInEveryReturn ==
  /\ Len(submissionIds) > 0 => SearchingCount = 1
  /\ issued # <<>> => progress = <<"retrieving", "searching">>
  /\ Returned => progress = <<"retrieving", "searching">>

\* the groups started so far: one for every ten fetches issued, or part of ten
GroupsStarted == (Len(issued) + 9) \div 10

\* C29: if every issued fetch eventually completes, every run eventually
\* settles, by returning a SearchResult or by raising, after it has started
\* at most ceil(n/10) groups, n being the number of ids of the list.
C29_Terminates ==
  /\ (pc = "retrieving") ~> (pc \in {"returned", "raised"})
  /\ [](GroupsStarted <= (Len(itemResponse) + 9) \div 10)
  /\ [](pc \in {"returned", "raised"} =>
          (pc = "returned") = (result # None))

\* a run has settled after it started the two groups of a list of eleven
C29_Witness ==
  /\ pc \in {"returned", "raised"}
  /\ Len(itemResponse) = 11
  /\ GroupsStarted = 2

\* C30: the found flag and the recorded match belong to one run. Whatever the
\* other runs in progress have recorded: a run whose flag is set has recorded
\* an item that one of its own requests delivered and that matches under its
\* own options; the result of a run is its own flag and its own record; and a
\* run whose own flag is not set goes on through its list, batch after batch,
\* until it has requested every id.
C30_FlagPerRun ==
  \A k \in DOMAIN searches :
    LET r == searches[k]
    IN /\ r.foundEmDash =>
            \E id \in DOMAIN itemResponse :
               /\ r.task[id] = "done"
               /\ TaskMatches(r.stories, r.strict, itemResponse[id])
               /\ r.foundItem = itemResponse[id].body
               /\ r.matchedText = Some(TextToSearch(itemResponse[id].body[1]))
       /\ ~r.foundEmDash => r.foundItem = None /\ r.matchedText = None
       /\ r.pc = "returned" =>
            r.result = Some(SearchResult(r.foundEmDash, r.foundItem,
                                         r.matchedText))
       /\ (r.pc = "scanning" /\ ~r.foundEmDash) =>
            r.issued = SubSeq(r.submissionIds, 1,
                              Min(r.i + limit, Len(r.submissionIds)))
       /\ (r.pc = "returned" /\ ~r.foundEmDash) =>
            r.issued = r.submissionIds

\* a loose run has recorded a match and is still waiting for its batch; a
\* strict run launched beside it has been through the whole list, the
\* recorded item included, and has returned without a match
C30_Witness ==
  \E j, k \in DOMAIN searches :
     /\ searches[j].pc = "scanning"
     /\ searches[j].foundEmDash
     /\ ~searches[j].strict
     /\ searches[k].strict
     /\ searches[k].pc = "returned"
     /\ ~searches[k].result[1].found
     /\ Len(searches[k].issued) > limit
     /\ \E id \in DOMAIN itemResponse :
          /\ searches[j].foundItem = itemResponse[id].body
          /\ searches[k].task[id] = "done"

\* no callback is pending and every search launched has settled
Quiet ==
  /\ timers = <<>>
  /\ \A k \in DOMAIN searches : searches[k].pc \in {"returned", "raised"}

\* C22: when the page is loaded with ?username=U&strict=true (U valid), every
\* search launched automatically runs with strictMode = TRUE, and the result
\* finally displayed (found or failed, and the item shown) is not produced by
\* a loose-mode search.
C22_AutoSearchesStrict ==
  (StrictParam(url) /\ AutoSubmits(url)) =>
     /\ \A k \in DOMAIN searches : searches[k].auto => searches[k].strict
     /\ (Quiet /\ ui.shownBy # 0 /\ ui.progressState \in {"found", "failed"})
           => searches[ui.shownBy].strict

\* the step launches a search: performSearch passes its test of the name
Submission == Len(searches') > Len(searches)

\* the step ends the await of performSearch with a result
Concludes ==
  /\ ui'.progressState \in {"found", "failed"}
  /\ ui'.shownBy # 0
  /\ \/ ui'.shownBy # ui.shownBy
     \/ searches'[ui'.shownBy].pc # searches[ui'.shownBy].pc

\* C23: in the UI progressState is retrieving, then searching, then found or
\* failed for every search that ends in found or failed: a search is
\* concluded as found or failed from searching only, searching is entered
\* from retrieving only, and from found, failed or error the state goes back
\* to retrieving or searching only by a new submission.
C23_ProgressOrder ==
  [][/\ Concludes => ui.progressState = "searching"
     /\ (ui'.progressState = "searching" /\ ui.progressState # "searching")
           => ui.progressState = "retrieving"
     /\ (/\ ui.progressState \in {"found", "failed", "error"}
         /\ ui'.progressState \in {"retrieving", "searching"})
           => Submission]_vars

\* the response to the request of id is an item marked deleted, a response
\* whose status is not a success, or a null payload
Discarded(id) ==
  \/ itemResponse[id].net = "notok"
  \/ /\ itemResponse[id].net = "ok"
     /\ itemResponse[id].json
     /\ \/ itemResponse[id].body = None
        \/ itemResponse[id].body[1].deleted

\* the step in which the task of id resumes with its response
Resumes(id) == task[id] = "inflight" /\ task'[id] # "inflight"

\* C35: a deleted item, and an item response with a non-success status or a
\* null payload, leave foundEmDash, foundItem and matchedText unchanged: the
\* task returns (it is fulfilled) without writing any shared state.
C35_DiscardedWritesNothing ==
  [][\A id \in Ids :
       (Resumes(id) /\ Discarded(id)) =>
          /\ task'[id] = "done"
          /\ foundEmDash' = foundEmDash
          /\ foundItem' = foundItem
          /\ matchedText' = matchedText]_vars

\* the task of a deleted comment with an em dash, posted before the cutoff,
\* has returned and nothing is recorded
C35_Witness ==
  \E id \in Ids :
     /\ task[id] = "done"
     /\ itemResponse[id].body # None
     /\ itemResponse[id].body[1].deleted
     /\ itemResponse[id].body[1].type = "comment"
     /\ itemResponse[id].body[1].time < TARGET_TIMESTAMP_S
     /\ itemResponse[id].body[1].text = Some(<<"a", "EM">>)
     /\ ~foundEmDash
     /\ foundItem = None
     /\ matchedText = None

\* the ids of the groups the loop has started: the loop index is advanced
\* only when the group is settled
StartedIds ==
  IF pc = "returned"
  THEN SubSeq(submissionIds, 1, Min(i, Len(submissionIds)))
  ELSE SubSeq(submissionIds, 1, Min(i + limit, Len(submissionIds)))

\* C34: within a started group the fast exit never fires. No task ever takes
\* the fast exit; the fetches of all the ids of a group are issued in one step,
\* before any of them completes; and the item fetches issued in a run are
\* those of all the ids of the started groups, whatever has matched.
C34_NoFastExitInGroup ==
  /\ [](skipped = {})
  /\ [][issued' # issued =>
          /\ Len(issued') = Min(Len(issued) + limit, Len(submissionIds'))
          /\ \A k \in (Len(issued) + 1)..Len(issued') :
                /\ task[issued'[k]] = "none"
                /\ task'[issued'[k]] = "inflight"]_vars
  /\ [](pc \in {"scanning", "returned"} => issued = StartedIds)
  /\ [](\A id \in Ids : task[id] # "none" => id \in Range(issued))

\* the oldest of eleven items has matched, the nine other requests of its
\* group were issued and have completed, and the second group is not started
C34_Witness ==
  /\ Len(submissionIds) = CONCURRENCY_LIMIT + 1
  /\ pc = "returned"
  /\ foundEmDash
  /\ foundItem = itemResponse[submissionIds[1]].body
  /\ Len(issued) = CONCURRENCY_LIMIT
  /\ \A k \in 1..CONCURRENCY_LIMIT : task[submissionIds[k]] = "done"

\* the automatic searches: the callbacks scheduled by the effect, pending or
\* run
AutoSearches ==
  Len(timers) + Cardinality({k \in DOMAIN searches : searches[k].auto})

\* C31: a page load whose URL carries a valid username triggers the automatic
\* search exactly once, on mount; later changes of the strict or +titles
\* settings do not launch another automatic search.
C31_AutoSearchOnce ==
  /\ [](AutoSubmits(url) => AutoSearches = 1)
  /\ [][(ui'.strictMode # ui.strictMode
           \/ ui'.includeStories # ui.includeStories) => timers' = timers]_vars

\* the searches in progress: launched and neither returned nor raised
InProgress ==
  {k \in DOMAIN searches : searches[k].pc \in {"retrieving", "scanning"}}

\* C33: in the UI at most one search is in progress at any time, and isLoading
\* is true in every state in which a search is in progress; when isLoading is
\* false, progressState is found, failed, error or idle, and no progress
\* callback or result of a search arrives afterwards.
C33_OneSearchAtATime ==
  /\ [](Cardinality(InProgress) <= 1)
  /\ [](InProgress # {} => ui.isLoading)
  /\ [](~ui.isLoading =>
          ui.progressState \in {"found", "failed", "error", "idle"})
  /\ [][(~ui.isLoading /\ searches' # searches) => Submission]_vars

\* the username format: 2 to 15 letters, digits, underscores or hyphens
WellFormed(s) ==
  /\ Len(s) \in 2..15
  /\ \A k \in DOMAIN s : s[k] \in {"a", "b", "_", "-"}

\* the step reports an invalid username
Refuses == ui'.usernameError = "invalid" /\ ui.usernameError # "invalid"

\* C32: the UI calls searchUntilEmDash only with a trimmed username that
\* matches the username format. For an invalid username no request is issued
\* and the page is idle and not loading: a name given in the URL schedules no
\* automatic search, and the submission that is refused launches no search,
\* leaves every search as it is and sets progressState to idle and isLoading
\* to false.
C32_ValidatedUsernames ==
  /\ [](\A k \in DOMAIN searches : WellFormed(searches[k].username))
  /\ [](\A k \in DOMAIN timers : WellFormed(timers[k].username))
  /\ []((url.username = None \/ ~WellFormed(Trim(url.username[1])))
          => AutoSearches = 0)
  /\ [][Refuses =>
          /\ ~WellFormed(Trim(ui.username))
          /\ searches' = searches
          /\ ui'.progressState = "idle"
          /\ ~ui'.isLoading]_vars

\* a name of one character has been submitted and refused, after a search
C32_Witness ==
  /\ ui.username = <<"a">>
  /\ ui.usernameError = "invalid"
  /\ ui.progressState = "idle"
  /\ ~ui.isLoading
  /\ searches # <<>>
====
